---- MODULE Spec2Model ----
(***************************************************************************)
(* Model of guard's Azure RBAC authorizer: the check-access client        *)
(* (rbac.AccessInfo), its request helpers, the token lifecycle and the     *)
(* decision store it reads and writes.                                     *)
(*                                                                         *)
(* Strings are sequences of tokens.  A token stands for a run of bytes:    *)
(* "U36" is a canonical 36-byte UUID text, "H32" a 32-digit hex text,      *)
(* "urn:uuid:" the 9-byte URN prefix; every other token counts one byte.   *)
(* Time is counted in seconds.                                             *)
(***************************************************************************)
EXTENDS Integers, Sequences, FiniteSets, TLC

(* ------------------------------ bounds -------------------------------- *)
MaxTime == 60
Quantum == 30
MaxTokenCalls == 2
MaxCheckCalls == 2

Tasks == {"t1", "t2"}

(* ------------------------- program constants -------------------------- *)
expiryDelta == 60
StatusOK == 200
StatusTooManyRequests == 429
Allowed == <<"a", "l", "l", "o", "w", "e", "d">>
AccessAllowedVerdict == "Access allowed"
AccessNotAllowedVerdict == "User does not have access to the resource in Azure. Update role assignment to allow access."
namespaces == <<"namespaces">>
managedClusters == "Microsoft.ContainerService/managedClusters"
connectedClusters == "Microsoft.Kubernetes/connectedClusters"
OrgType == <<"a", "z", "u", "r", "e">>
StatusBadRequest == 400
checkAccessPath == <<"/", "providers", "/", "Microsoft.Authorization", "/", "checkaccess">>
checkAccessAPIVersion == "2018-09-01-preview"

(* configuration of the client and of the store *)
armCallLimit == 2
LifeWindow == 60
HardMaxCacheSize == 1
MaxEntrySize == 8

ZeroTime == 0 - 1000

(* ------------------------------ strings ------------------------------- *)
TokLen(c) ==
    CASE c = "U36" -> 36
      [] c = "H32" -> 32
      [] c = "urn:uuid:" -> 9
      [] c = "URN:UUID:" -> 9
      [] OTHER -> 1

RECURSIVE StrLen(_)
StrLen(s) == IF s = <<>> THEN 0 ELSE TokLen(Head(s)) + StrLen(Tail(s))

ToLowerTok(c) ==
    CASE c = "A" -> "a"
      [] c = "L" -> "l"
      [] c = "O" -> "o"
      [] c = "W" -> "w"
      [] c = "E" -> "e"
      [] c = "D" -> "d"
      [] c = "N" -> "n"
      [] c = "I" -> "i"
      [] c = "Z" -> "z"
      [] c = "U" -> "u"
      [] c = "R" -> "r"
      [] c = "G" -> "g"
      [] c = "T" -> "t"
      [] c = "H" -> "h"
      [] c = "B" -> "b"
      [] c = "URN:UUID:" -> "urn:uuid:"
      [] OTHER -> c

ToLower(s) == [i \in 1..Len(s) |-> ToLowerTok(s[i])]

DigitVal(c) ==
    CASE c = "0" -> 0 [] c = "1" -> 1 [] c = "2" -> 2 [] c = "3" -> 3
      [] c = "4" -> 4 [] c = "5" -> 5 [] c = "6" -> 6 [] c = "7" -> 7
      [] c = "8" -> 8 [] c = "9" -> 9 [] OTHER -> 0 - 1

IsDigits(s) == s # <<>> /\ \A i \in 1..Len(s) : DigitVal(s[i]) >= 0

RECURSIVE DigitsVal(_)
DigitsVal(s) ==
    IF s = <<>> THEN 0 ELSE 10 * DigitsVal(SubSeq(s, 1, Len(s) - 1)) + DigitVal(s[Len(s)])

(* strconv.Atoi with its error dropped: 0 for anything that is not a number *)
Atoi(s) ==
    IF s # <<>> /\ Head(s) \in {"-", "+"} /\ IsDigits(Tail(s))
    THEN (IF Head(s) = "-" THEN 0 - DigitsVal(Tail(s)) ELSE DigitsVal(Tail(s)))
    ELSE IF IsDigits(s) THEN DigitsVal(s) ELSE 0

(* ------------------------------- path --------------------------------- *)
RECURSIVE Split(_)
(* the components of s between its "/" tokens *)
Split(s) ==
    IF \A i \in 1..Len(s) : s[i] # "/"
    THEN <<s>>
    ELSE LET k == CHOOSE i \in 1..Len(s) : s[i] = "/" /\ \A j \in 1..(i - 1) : s[j] # "/"
         IN <<SubSeq(s, 1, k - 1)>> \o Split(SubSeq(s, k + 1, Len(s)))

RECURSIVE CleanComps(_, _, _)
CleanComps(comps, out, rooted) ==
    IF comps = <<>> THEN out
    ELSE LET c == Head(comps)
             rest == Tail(comps)
         IN CASE c = <<>> \/ c = <<".">> -> CleanComps(rest, out, rooted)
              [] c = <<"..">> ->
                    IF out # <<>> /\ out[Len(out)] # <<"..">>
                    THEN CleanComps(rest, SubSeq(out, 1, Len(out) - 1), rooted)
                    ELSE IF rooted THEN CleanComps(rest, out, rooted)
                    ELSE CleanComps(rest, Append(out, c), rooted)
              [] OTHER -> CleanComps(rest, Append(out, c), rooted)

RECURSIVE JoinWith(_, _)
JoinWith(strs, sep) ==
    IF strs = <<>> THEN <<>>
    ELSE IF Len(strs) = 1 THEN Head(strs)
    ELSE Head(strs) \o sep \o JoinWith(Tail(strs), sep)

(* path.Clean *)
Clean(s) ==
    IF s = <<>> THEN <<".">>
    ELSE LET rooted == Head(s) = "/"
             out == CleanComps(Split(s), <<>>, rooted)
             body == JoinWith(out, <<"/">>)
         IN IF rooted THEN <<"/">> \o body
            ELSE IF body = <<>> THEN <<".">> ELSE body

(* path.Join: the non-empty elements joined by "/" and cleaned *)
PathJoin(elems) ==
    LET ne == SelectSeq(elems, LAMBDA e : e # <<>>)
    IN IF ne = <<>> THEN <<>> ELSE Clean(JoinWith(ne, <<"/">>))

(* ------------------------------ requests ------------------------------ *)
(* A pointer field is a sequence: <<>> for nil, <<v>> for a value.        *)
NoAttr == <<>>

ResourceAttr(ns, group, resource, verb) ==
    <<[Namespace |-> ns, Group |-> group, Resource |-> resource, Verb |-> verb]>>

NonResourceAttr(p, verb) == <<[Path |-> p, Verb |-> verb]>>

SAR(user, hasOid, oid, ra, nra) ==
    [User |-> user, Groups |-> <<>>, HasOid |-> hasOid, Oid |-> oid,
     ResourceAttributes |-> ra, NonResourceAttributes |-> nra]

Alice == <<"alice">>
Bob == <<"bob">>
LongUser == <<"l", "o", "n", "g", "u", "s", "e", "r">>

ReqGet == SAR(Alice, TRUE, << <<"U36">> >>,
              ResourceAttr(<<"dev">>, <<>>, <<"pods">>, <<"get">>), NoAttr)
ReqList == SAR(Alice, TRUE, << <<"U36">> >>,
               ResourceAttr(<<"dev">>, <<>>, <<"pods">>, <<"list">>), NoAttr)
ReqDelete == SAR(Bob, TRUE, << <<"U36">> >>,
                 ResourceAttr(<<>>, <<"apps">>, <<"pods">>, <<"delete">>), NoAttr)
ReqNoOid == SAR(Bob, FALSE, <<>>, NoAttr, NonResourceAttr(<<"/", "logs">>, <<"get">>))
ReqBadOid == SAR(Bob, TRUE, << <<"t", "e", "s", "t">> >>,
                 NoAttr, NonResourceAttr(<<"/", "logs">>, <<"get">>))
ReqEmptyOid == SAR(Bob, TRUE, <<>>, NoAttr, NonResourceAttr(<<"/", "logs">>, <<"get">>))
ReqPaddedOid == SAR(Bob, TRUE, << <<>>, <<"U36">>, <<>> >>,
                    NoAttr, NonResourceAttr(<<"/", "logs">>, <<"get">>))
ReqLong == SAR(LongUser, TRUE, << <<"U36">> >>,
               NoAttr, NonResourceAttr(<<"/", "logs">>, <<"get">>))

Requests == {ReqGet, ReqList, ReqDelete, ReqNoOid, ReqBadOid, ReqEmptyOid,
             ReqPaddedOid, ReqLong}

(* --------------------------- request helpers -------------------------- *)
(* uuid.Parse of google/uuid v1.1.1: the form is chosen by the length;    *)
(* for length 38 the first and the last byte are dropped unexamined       *)
ParsesAsUUID(s) ==
    LET n == StrLen(s)
    IN CASE n = 36 -> s = <<"U36">>
         [] n = 36 + 9 -> Len(s) = 2 /\ ToLowerTok(s[1]) = "urn:uuid:" /\ s[2] = "U36"
         [] n = 36 + 2 -> Len(s) = 3 /\ s[2] = "U36"
         [] n = 32 -> s = <<"H32">>
         [] OTHER -> FALSE

isValidUUID(u) == ParsesAsUUID(u)

(* ExtraValue.String(): fmt's %v of a []string *)
ExtraValueString(v) == <<"[">> \o JoinWith(v, <<" ">>) \o <<"]">>

getActionName_otherIsCustom(verb) ==
    CASE verb \in {<<"get">>, <<"list">>, <<"watch">>} -> <<"read">>
      [] verb \in {<<"create">>, <<"patch">>, <<"update">>} -> <<"write">>
      [] verb \in {<<"delete">>, <<"deletecollection">>} -> <<"delete">>
      [] verb = <<>> -> <<>>
      [] OTHER -> verb \o <<"/", "action">>

getActionName(verb) ==
    CASE verb \in {<<"get">>, <<"list">>, <<"watch">>} -> <<"read">>
      [] verb = <<"bind">> -> <<"bind", "/", "action">>
      [] verb = <<"escalate">> -> <<"escalate", "/", "action">>
      [] verb = <<"use">> -> <<"use", "/", "action">>
      [] verb = <<"impersonate">> -> <<"impersonate", "/", "action">>
      [] verb \in {<<"create">>, <<"patch">>, <<"update">>} -> <<"write">>
      [] verb \in {<<"delete">>, <<"deletecollection">>} -> <<"delete">>
      [] OTHER -> <<>>

getResultCacheKey_rawVerb(r) ==
    IF r.ResourceAttributes # NoAttr
    THEN LET ra == r.ResourceAttributes[1]
             k1 == IF ra.Namespace # <<>> THEN PathJoin(<<r.User, ra.Namespace>>) ELSE r.User
             k2 == IF ra.Group # <<>> THEN PathJoin(<<k1, ra.Group>>) ELSE k1
         IN PathJoin(<<k2, ra.Resource, ra.Verb>>)
    ELSE IF r.NonResourceAttributes # NoAttr
    THEN LET nra == r.NonResourceAttributes[1]
         IN PathJoin(<<r.User, nra.Path, nra.Verb>>)
    ELSE r.User

getResultCacheKey(r) ==
    IF r.ResourceAttributes # NoAttr
    THEN LET ra == r.ResourceAttributes[1]
             k1 == IF ra.Namespace # <<>> THEN PathJoin(<<r.User, ra.Namespace>>) ELSE r.User
             k2 == IF ra.Group # <<>> THEN PathJoin(<<k1, ra.Group>>) ELSE k1
         IN PathJoin(<<k2, ra.Resource, getActionName(ra.Verb)>>)
    ELSE IF r.NonResourceAttributes # NoAttr
    THEN LET nra == r.NonResourceAttributes[1]
         IN PathJoin(<<r.User, nra.Path, getActionName(nra.Verb)>>)
    ELSE r.User

getDataAction_pathFirst(r, clusterType) ==
    [IsDataAction |-> TRUE,
     Id |-> IF r.NonResourceAttributes # NoAttr
            THEN LET nra == r.NonResourceAttributes[1]
                 IN PathJoin(<<clusterType, nra.Path, getActionName(nra.Verb)>>)
            ELSE IF r.ResourceAttributes # NoAttr
            THEN LET ra == r.ResourceAttributes[1]
                     id == IF ra.Group # <<>> THEN PathJoin(<<clusterType, ra.Group>>)
                           ELSE clusterType
                 IN PathJoin(<<id, ra.Resource, getActionName(ra.Verb)>>)
            ELSE clusterType]

getDataAction(r, clusterType) ==
    [IsDataAction |-> TRUE,
     Id |-> IF r.ResourceAttributes # NoAttr
            THEN LET ra == r.ResourceAttributes[1]
                     id == IF ra.Group # <<>> THEN PathJoin(<<clusterType, ra.Group>>)
                           ELSE clusterType
                 IN PathJoin(<<id, ra.Resource, getActionName(ra.Verb)>>)
            ELSE IF r.NonResourceAttributes # NoAttr
            THEN LET nra == r.NonResourceAttributes[1]
                 IN PathJoin(<<clusterType, nra.Path, getActionName(nra.Verb)>>)
            ELSE clusterType]

(* prepareCheckAccessRequestBody: the actions of the body *)
Actions(r, clusterType) == <<getDataAction(r, clusterType)>>

(* the error (or "") and the ObjectId of the body built for request r *)
prepareCheckAccessRequestBody(r) ==
    IF ~r.HasOid
    THEN [err |-> "oid info not sent from authentication module", ObjectId |-> <<>>]
    ELSE LET val == ExtraValueString(r.Oid)
             userOid == SubSeq(val, 2, Len(val) - 1)
         IN IF isValidUUID(userOid)
            THEN [err |-> "", ObjectId |-> userOid]
            ELSE [err |-> "oid info sent from authentication module is not valid",
                  ObjectId |-> <<>>]

(* getScope: the resource id, extended by the namespace when there is one *)
getScope_concat(resourceId, attr) ==
    IF attr # NoAttr /\ attr[1].Namespace # <<>>
    THEN resourceId \o <<"/">> \o namespaces \o <<"/">> \o attr[1].Namespace
    ELSE resourceId

getScope(resourceId, attr) ==
    IF attr # NoAttr /\ attr[1].Namespace # <<>>
    THEN PathJoin(<<resourceId, namespaces, attr[1].Namespace>>)
    ELSE resourceId

getNameSpaceScope_emptyToo(r) ==
    IF r.ResourceAttributes # NoAttr
    THEN [exist |-> TRUE,
          nameSpaceString |-> PathJoin(<<namespaces, r.ResourceAttributes[1].Namespace>>)]
    ELSE [exist |-> FALSE, nameSpaceString |-> <<>>]

(* getNameSpaceScope: whether the request has a namespace, and its path *)
getNameSpaceScope(r) ==
    IF r.ResourceAttributes # NoAttr /\ r.ResourceAttributes[1].Namespace # <<>>
    THEN [exist |-> TRUE,
          nameSpaceString |-> PathJoin(<<namespaces, r.ResourceAttributes[1].Namespace>>)]
    ELSE [exist |-> FALSE, nameSpaceString |-> <<>>]

NoURL == [Method |-> "", Path |-> <<>>, RawQuery |-> <<>>]

(* CheckAccess up to http.NewRequest: the method, the path and the query  *)
(* of the request for r, apiPath being the path of a.apiURL; the query is *)
(* url.Values.Encode of the one parameter, which needs no escaping; no    *)
(* request is made when the body cannot be prepared                       *)
checkAccessURL(apiPath, resourceId, r) ==
    IF prepareCheckAccessRequestBody(r).err # ""
    THEN NoURL
    ELSE LET withId == PathJoin(<<apiPath, resourceId>>)
             ns == getNameSpaceScope(r)
             withNs == IF ns.exist THEN PathJoin(<<withId, ns.nameSpaceString>>) ELSE withId
         IN [Method |-> "POST",
             Path |-> PathJoin(<<withNs, checkAccessPath>>),
             RawQuery |-> <<"api-version", "=", checkAccessAPIVersion>>]

(* getValidSecurityGroups: the groups isValidUUID accepts, in their order *)
getValidSecurityGroups(groups) == SelectSeq(groups, isValidUUID)

(* prepareCheckAccessRequestBody, the subject's groups and flag: Groups   *)
(* is tagged omitempty, so the empty list is the list left out of the body *)
SubjectAttributes(r, retrieveGroupMemberships) ==
    [Groups |-> IF ~retrieveGroupMemberships
                THEN getValidSecurityGroups(r.Groups)
                ELSE <<>>,
     RetrieveGroupMemberships |-> retrieveGroupMemberships]

(* newAccessInfo: the cluster type kept for a cluster-type tag            *)
clusterTypeOf(clsuterType) ==
    CASE clsuterType = "arc" -> connectedClusters
      [] clsuterType = "aks" -> managedClusters
      [] OTHER -> ""

(* newAccessInfo: the keys of the skipCheck map                           *)
skipCheckOf_asGiven(skipList) == {skipList[i] : i \in 1..Len(skipList)}

skipCheckOf(skipList) == {ToLower(skipList[i]) : i \in 1..Len(skipList)}

SkipAuthzCheck(clusterType, skipCheck, r) ==
    IF clusterType = connectedClusters
    THEN ToLower(r.User) \in skipCheck
    ELSE FALSE

(* --------------------------- decision store --------------------------- *)
(* The store is the sequence of its entries, oldest first.                *)
EntrySize(key) == StrLen(key)

Live_atLifeWindow(e, t) == t - e.at <= LifeWindow

Live(e, t) == t - e.at < LifeWindow

StoreGet(store, key, t) ==
    LET hits == SelectSeq(store, LAMBDA e : e.key = key /\ Live(e, t))
    IN IF hits = <<>> THEN [found |-> FALSE, value |-> FALSE]
       ELSE [found |-> TRUE, value |-> hits[1].value]

StoreFits(key) == EntrySize(key) <= MaxEntrySize

StoreSet_unbounded(store, key, value, t) ==
    IF ~StoreFits(key) THEN store
    ELSE LET others == SelectSeq(store, LAMBDA e : e.key # key)
         IN Append(others, [key |-> key, value |-> value, at |-> t])

StoreSet(store, key, value, t) ==
    IF ~StoreFits(key) THEN store
    ELSE LET others == SelectSeq(store, LAMBDA e : e.key # key)
             all == Append(others, [key |-> key, value |-> value, at |-> t])
         IN IF Len(all) > HardMaxCacheSize
            THEN SubSeq(all, Len(all) - HardMaxCacheSize + 1, Len(all))
            ELSE all

GetResultFromCache_byUser(store, r, t) == StoreGet(store, r.User, t)

GetResultFromCache(store, r, t) == StoreGet(store, getResultCacheKey(r), t)

SetResultInCache(store, r, result, t) == StoreSet(store, getResultCacheKey(r), result, t)

(* --------------------------- return values ---------------------------- *)
(* what a call hands back: a SubjectAccessReviewStatus pointer and an error *)
NoResult == [status |-> "none", allowed |-> FALSE, denied |-> FALSE, reason |-> "", err |-> ""]

Decision(allowed, denied, reason) ==
    [status |-> "decision", allowed |-> allowed, denied |-> denied, reason |-> reason, err |-> ""]

Error(msg) == [status |-> "error", allowed |-> FALSE, denied |-> FALSE, reason |-> "", err |-> msg]

(* ------------------------- remote policy API -------------------------- *)
DecAllowed == Allowed
DecAllowedCap == <<"A", "l", "l", "o", "w", "e", "d">>
DecAllowedUpper == <<"A", "L", "L", "O", "W", "E", "D">>
DecDenied == <<"D", "e", "n", "i", "e", "d">>
DecNotAllowed == <<"N", "o", "t", "A", "l", "l", "o", "w", "e", "d">>

BodyInvalid == [json |-> "invalid", items |-> <<>>]
BodyNull == [json |-> "null", items |-> <<>>]
BodyArray(items) == [json |-> "array", items |-> items]

Bodies ==
    {BodyInvalid, BodyNull, BodyArray(<<>>),
     BodyArray(<<DecAllowed>>), BodyArray(<<DecAllowedCap>>), BodyArray(<<DecAllowedUpper>>),
     BodyArray(<<DecDenied>>), BodyArray(<< <<>> >>), BodyArray(<<DecNotAllowed>>),
     BodyArray(<<DecDenied, DecAllowed>>), BodyArray(<<DecAllowedCap, DecDenied>>)}

(* values of the x-ms-ratelimit-remaining-subscription-reads header;      *)
(* <<>> is the header being absent                                         *)
RemainingValues == {<<>>, <<"x">>, <<"1">>, <<"5">>}

NoResponse ==
    [kind |-> "none", StatusCode |-> 0, remaining |-> <<>>, readErr |-> FALSE, body |-> BodyInvalid]

TransportError == [NoResponse EXCEPT !.kind = "transportError"]

HTTPResponse(code, remaining, readErr, body) ==
    [kind |-> "response", StatusCode |-> code, remaining |-> remaining,
     readErr |-> readErr, body |-> body]

Responses ==
    {TransportError}
    \cup {HTTPResponse(StatusOK, <<"5">>, FALSE, b) : b \in Bodies}
    \cup {HTTPResponse(StatusOK, rem, FALSE, b) :
            rem \in RemainingValues,
            b \in {BodyInvalid, BodyArray(<<>>), BodyArray(<<DecAllowedCap>>), BodyArray(<<DecDenied>>)}}
    \cup {HTTPResponse(StatusOK, <<"5">>, TRUE, BodyInvalid)}
    \cup {HTTPResponse(code, <<"1">>, FALSE, b) :
            code \in {StatusTooManyRequests, 500}, b \in {BodyInvalid, BodyArray(<<DecAllowedCap>>)}}

ConvertCheckAccessResponse_caseSensitive(body) ==
    IF body.json = "invalid"
    THEN [panicked |-> FALSE, ret |-> Error("Error in unmarshalling check access response.")]
    ELSE IF body.items = <<>>
    THEN [panicked |-> TRUE, ret |-> NoResult]
    ELSE IF body.items[1] = Allowed
    THEN [panicked |-> FALSE, ret |-> Decision(TRUE, FALSE, AccessAllowedVerdict)]
    ELSE [panicked |-> FALSE, ret |-> Decision(FALSE, TRUE, AccessNotAllowedVerdict)]

(* ConvertCheckAccessResponse: panicked is the index-out-of-range of      *)
(* response[0] on a body that decodes to no decision                       *)
ConvertCheckAccessResponse(body) ==
    IF body.json = "invalid"
    THEN [panicked |-> FALSE, ret |-> Error("Error in unmarshalling check access response.")]
    ELSE IF body.items = <<>>
    THEN [panicked |-> TRUE, ret |-> NoResult]
    ELSE IF ToLower(body.items[1]) = Allowed
    THEN [panicked |-> FALSE, ret |-> Decision(TRUE, FALSE, AccessAllowedVerdict)]
    ELSE [panicked |-> FALSE, ret |-> Decision(FALSE, TRUE, AccessNotAllowedVerdict)]

(* the end of CheckAccess: the body is decoded and the store written      *)
CheckAccessDecode(data, r, store, t, closed) ==
    LET conv == ConvertCheckAccessResponse(data)
    IN IF conv.panicked
       THEN [panicked |-> TRUE, ret |-> NoResult, store |-> store,
             closedIdle |-> closed, bodyClosed |-> TRUE]
       ELSE IF conv.ret.status = "decision"
       THEN [panicked |-> FALSE, ret |-> conv.ret,
             store |-> SetResultInCache(store, r, conv.ret.allowed, t),
             closedIdle |-> closed, bodyClosed |-> TRUE]
       ELSE [panicked |-> FALSE, ret |-> conv.ret,
             store |-> SetResultInCache(store, r, FALSE, t),
             closedIdle |-> closed, bodyClosed |-> TRUE]

Failed(msg, store, closed, bodyClosed) ==
    [panicked |-> FALSE, ret |-> Error(msg), store |-> store,
     closedIdle |-> closed, bodyClosed |-> bodyClosed]

CheckAccessResult_denyOnStatus(rsp, r, store, t) ==
    IF rsp.kind = "transportError"
    THEN Failed("error in check access request execution", store, FALSE, FALSE)
    ELSE IF rsp.readErr
    THEN Failed("error in reading response body", store, FALSE, FALSE)
    ELSE IF rsp.StatusCode # StatusOK
    THEN Failed("request failed with status code", SetResultInCache(store, r, FALSE, t),
                rsp.StatusCode = StatusTooManyRequests, TRUE)
    ELSE CheckAccessDecode(rsp.body, r, store, t, Atoi(rsp.remaining) < armCallLimit)

CheckAccessResult_throttleFails(rsp, r, store, t) ==
    IF rsp.kind = "transportError"
    THEN Failed("error in check access request execution", store, FALSE, FALSE)
    ELSE IF rsp.readErr
    THEN Failed("error in reading response body", store, FALSE, FALSE)
    ELSE IF rsp.StatusCode # StatusOK
    THEN Failed("request failed with status code", store,
                rsp.StatusCode = StatusTooManyRequests, TRUE)
    ELSE IF Atoi(rsp.remaining) < armCallLimit
    THEN Failed("request throttled", store, TRUE, TRUE)
    ELSE CheckAccessDecode(rsp.body, r, store, t, FALSE)

(* CheckAccess from the return of client.Do on: what the call returns,    *)
(* the store it leaves, whether it closed the idle connections and the    *)
(* response body                                                           *)
CheckAccessResult(rsp, r, store, t) ==
    IF rsp.kind = "transportError"
    THEN Failed("error in check access request execution", store, FALSE, FALSE)
    ELSE IF rsp.readErr
    THEN Failed("error in reading response body", store, FALSE, FALSE)
    ELSE IF rsp.StatusCode # StatusOK
    THEN Failed("request failed with status code", store,
                rsp.StatusCode = StatusTooManyRequests, TRUE)
    ELSE CheckAccessDecode(rsp.body, r, store, t, Atoi(rsp.remaining) < armCallLimit)

(* ---------------------------- helper calls --------------------------- *)
(* the arguments of one call of a helper function, named by "for"         *)
NoInput ==
    [for |-> "none", r1 |-> ReqGet, r2 |-> ReqGet, verb |-> <<>>, resourceId |-> <<>>,
     attr |-> NoAttr, clsuterType |-> "", skipList |-> <<>>,
     retrieveGroupMemberships |-> FALSE, clusterType |-> <<>>, apiPath |-> <<>>]

NoOutput ==
    [key1 |-> <<>>, key2 |-> <<>>, action |-> <<>>, scope |-> <<>>, skip |-> FALSE,
     subject |-> [Groups |-> <<>>, RetrieveGroupMemberships |-> FALSE],
     actions |-> <<>>, url |-> NoURL]

(* ResourceAttributes with the fields the helpers do not read             *)
FullResourceAttr(ns, group, version, resource, subresource, name, verb) ==
    <<[Namespace |-> ns, Group |-> group, Version |-> version, Resource |-> resource,
       Subresource |-> subresource, Name |-> name, Verb |-> verb]>>

Get == <<"get">>
Dev == <<"dev">>
Pods == <<"pods">>
Logs == <<"logs">>
UUID == <<"U36">>

KeyUsers == {Alice, Bob}

(* resource requests over every combination of the fields of the key      *)
ResourceRequests ==
    {SAR(u, TRUE, <<UUID>>, FullResourceAttr(ns, g, <<"v1">>, res, <<>>, <<>>, v), NoAttr) :
        u \in KeyUsers, ns \in {<<>>, Dev}, g \in {<<>>, Dev}, res \in {Pods, Logs},
        v \in {Get, <<"list">>, <<"delete">>, <<"proxy">>}}

(* requests that differ from the first in a field the key does not read   *)
BaseRequest ==
    SAR(Alice, TRUE, <<UUID>>, FullResourceAttr(Dev, <<>>, <<"v1">>, Pods, <<>>, <<>>, Get), NoAttr)

VariantRequests ==
    {SAR(Alice, TRUE, <<UUID>>, FullResourceAttr(Dev, <<>>, <<"v1">>, Pods, sub, name, Get), NoAttr) :
        sub \in {<<>>, <<"status">>}, name \in {<<>>, <<"web">>}}
    \cup {SAR(Alice, TRUE, <<UUID>>,
              FullResourceAttr(Dev, <<>>, <<"v2">>, Pods, <<>>, <<>>, Get), NoAttr),
          [BaseRequest EXCEPT !.Groups = <<UUID>>],
          [BaseRequest EXCEPT !.Oid = <<<<"H32">>>>],
          [BaseRequest EXCEPT !.HasOid = FALSE, !.Oid = <<>>]}

NonResourceRequests ==
    {SAR(u, TRUE, <<UUID>>, NoAttr, NonResourceAttr(p, v)) :
        u \in KeyUsers, p \in {<<"/", "logs">>, <<"/", "apis", "/", "v1">>},
        v \in {Get, <<"list">>, <<"delete">>}}
    \cup {SAR(u, TRUE, <<UUID>>, NoAttr, NoAttr) : u \in KeyUsers}

KeyRequests == ResourceRequests \cup VariantRequests \cup NonResourceRequests

KeyInputs ==
    {[NoInput EXCEPT !.for = "getResultCacheKey", !.r1 = a, !.r2 = b] :
        a \in KeyRequests, b \in KeyRequests}

Verbs ==
    {Get, <<"list">>, <<"watch">>, <<"bind">>, <<"escalate">>, <<"use">>, <<"impersonate">>,
     <<"create">>, <<"patch">>, <<"update">>, <<"delete">>, <<"deletecollection">>,
     <<>>, <<"Get">>, <<"GET">>, <<"Delete">>, <<"proxy">>, <<"approve">>, <<"*">>,
     <<"get", " ">>, <<"read">>}

VerbInputs == {[NoInput EXCEPT !.for = "getActionName", !.verb = v] : v \in Verbs}

ResourceIds ==
    {<<>>, <<"rid">>, <<"/", "subscriptions", "/", "s1">>,
     <<"/", "subscriptions", "/", "s1", "/">>}

ScopeInputs ==
    {[NoInput EXCEPT !.for = "getScope", !.resourceId = id, !.attr = a] :
        id \in ResourceIds,
        a \in {NoAttr}
              \cup {FullResourceAttr(ns, <<>>, <<"v1">>, Pods, <<>>, <<>>, Get) :
                       ns \in {<<>>, Dev, <<"kube-system">>}}}

Ada == <<"a", "d", "a">>
AdaCap == <<"A", "d", "a">>
AdaUpper == <<"A", "D", "A">>
Dan == <<"d", "a", "n">>

SkipInputs ==
    {[NoInput EXCEPT !.for = "SkipAuthzCheck", !.clsuterType = tag, !.skipList = l,
                     !.r1 = SAR(u, TRUE, <<UUID>>, NoAttr, NoAttr)] :
        tag \in {"arc", "aks", "", "ARC"},
        l \in {<<>>, <<Ada>>, <<AdaCap>>, <<AdaUpper, Dan>>},
        u \in {Ada, AdaCap, AdaUpper, Dan, <<>>}}

GroupValues == {UUID, <<"urn:uuid:", "U36">>, <<"t", "e", "s", "t">>, <<>>, <<"(", "U36", ")">>}

GroupLists ==
    {<<>>} \cup {<<g>> : g \in GroupValues}
           \cup {<<g, h>> : g \in GroupValues, h \in GroupValues}

GroupInputs ==
    {[NoInput EXCEPT !.for = "prepareCheckAccessRequestBody",
                     !.r1 = [BaseRequest EXCEPT !.Groups = l],
                     !.retrieveGroupMemberships = b] :
        l \in GroupLists, b \in BOOLEAN}

(* the cluster type as CheckAccess passes it and as the tests do *)
ClusterTypes ==
    {<<"aks">>, <<"arc">>, <<"Microsoft.Kubernetes", "/", "connectedClusters">>, <<>>}

BothKindsRequests ==
    {SAR(Alice, TRUE, <<UUID>>, FullResourceAttr(Dev, g, <<"v1">>, Pods, <<>>, <<>>, v),
         NonResourceAttr(<<"/", "logs">>, <<"delete">>)) :
        g \in {<<>>, <<"apps">>}, v \in {Get, <<"use">>}}

ActionInputs ==
    {[NoInput EXCEPT !.for = "getDataAction", !.r1 = r, !.clusterType = ct] :
        r \in ResourceRequests \cup NonResourceRequests \cup BothKindsRequests,
        ct \in ClusterTypes}

ApiPaths == {<<>>, <<"/">>, <<"/", "arm">>, <<"/", "arm", "/">>}

URLRequests ==
    {SAR(Alice, TRUE, <<UUID>>, FullResourceAttr(ns, <<>>, <<"v1">>, Pods, <<>>, <<>>, Get),
         NoAttr) : ns \in {<<>>, Dev, <<"kube-system">>}}
    \cup {SAR(Bob, TRUE, <<UUID>>, NoAttr, NonResourceAttr(<<"/", "logs">>, Get)),
          ReqNoOid}

URLInputs ==
    {[NoInput EXCEPT !.for = "CheckAccess", !.apiPath = p, !.resourceId = id, !.r1 = r] :
        p \in ApiPaths, id \in ResourceIds, r \in URLRequests}

Inputs ==
    KeyInputs \cup VerbInputs \cup ScopeInputs \cup SkipInputs \cup GroupInputs
    \cup ActionInputs \cup URLInputs

(* --------------------------- webhook handler -------------------------- *)
Github == <<"g", "i", "t", "h", "u", "b">>

(* an error value: its message, the organization the message names and   *)
(* the HTTP status WithCode attached to it, 0 when none was attached      *)
NoError == [msg |-> "", org |-> <<>>, code |-> 0]

NewError(msg, org) == [msg |-> msg, org |-> org, code |-> 0]

WithCode(err, code) == [err EXCEPT !.code = code]

Cert(organization) == [Organization |-> organization]

(* req.TLS is nil when TLS is FALSE *)
HTTPRequest(tls, certs, bodyOK) == [TLS |-> tls, PeerCertificates |-> certs, BodyOK |-> bodyOK]

NoRequest == HTTPRequest(FALSE, <<>>, FALSE)

(* what the handler did for a request and what it handed to               *)
(* writeAuthzResponse: the spec, the status and the error; the response   *)
(* has the HTTP status the error carries                                  *)
NoReply ==
    [written |-> FALSE, spec |-> FALSE, status |-> NoResult, err |-> NoError, code |-> 0,
     decoded |-> FALSE, has |-> FALSE, resolved |-> FALSE, checks |-> 0,
     returned |-> NoResult, writes |-> 0]

writeAuthzResponse(did, spec, status, err) ==
    [did EXCEPT !.written = TRUE, !.writes = did.writes + 1,
                !.spec = spec, !.status = status, !.err = err,
                !.code = IF err = NoError THEN StatusOK ELSE err.code]

Organizations ==
    {<<>>, <<OrgType>>, <<<<"A", "z", "u", "r", "e">>>>, <<<<"A", "Z", "U", "R", "E">>>>,
     <<Github>>, <<<<"l", "d", "a", "p">>>>, <<<<>>>>, <<OrgType, Github>>, <<Github, OrgType>>}

HTTPRequests ==
    {HTTPRequest(FALSE, <<>>, b) : b \in BOOLEAN}
    \cup {HTTPRequest(TRUE, <<>>, b) : b \in BOOLEAN}
    \cup {HTTPRequest(TRUE, <<Cert(o)>>, b) : o \in Organizations, b \in BOOLEAN}
    \cup {HTTPRequest(TRUE, <<Cert(<<>>), Cert(<<OrgType>>)>>, TRUE)}

(* what the authorizer's Check gives back to the handler *)
CheckReturns ==
    {Decision(TRUE, FALSE, AccessAllowedVerdict),
     Decision(FALSE, TRUE, AccessNotAllowedVerdict),
     Error("error in check access request execution")}

ProviderConfigs == {{OrgType}, {<<"A", "z", "u", "r", "e">>}, {OrgType, Github}, {Github}}

(* AuthzProviders.Has: the registry lookup, case-insensitive              *)
Has(names, org) == \E p \in names : ToLower(p) = ToLower(org)

(* ------------------------- store operations --------------------------- *)
(* the keys the requests have *)
StoreRequests == {ReqGet, ReqDelete, ReqNoOid, ReqLong}

StoreKeys == {getResultCacheKey(r) : r \in StoreRequests}

NoOp ==
    [kind |-> "none", key |-> <<>>, value |-> FALSE, found |-> FALSE, err |-> FALSE, at |-> 0]

(* n numbers the successful Sets, 0 for a key never set *)
NeverSet == [n |-> 0, at |-> 0, value |-> FALSE]

(* ------------------------------ the server ---------------------------- *)
(* ListenAndServe before it starts, after it aborted, and once it serves: *)
(* whether /subjectaccessreviews is registered and the handler's Store    *)
NotStarted == [phase |-> "start", registered |-> FALSE, Store |-> "nil"]

Aborted == [NotStarted EXCEPT !.phase = "aborted"]

Serving_exactName(names) ==
    [phase |-> "serving", registered |-> names # {},
     Store |-> IF OrgType \in names THEN "store" ELSE "nil"]

Serving(names) ==
    [phase |-> "serving",
     registered |-> names # {},
     Store |-> IF names # {} /\ Has(names, OrgType) THEN "store" ELSE "nil"]

(* ------------------------------- state -------------------------------- *)
VARIABLES
    now,         \* the clock
    headers,     \* the token in a.headers["Authorization"], 0 for none
    expiresAt,   \* a.expiresAt
    tokens,      \* real expiry of every token the provider issued
    tokenCalls,  \* calls made to the token provider
    checkCalls,  \* check-access requests sent
    dataStore,   \* the decision store
    pc,          \* where each task stands
    req,         \* the request each task serves
    tokResp,     \* the token response a refreshing task holds
    sent,        \* the check-access request a task has in flight
    resp,        \* the response a task's CheckAccess got
    out,         \* the outcome of a task's call
    fn,          \* the helper function applied last, "none" before any
    input,       \* the arguments a helper function is applied to
    result,      \* what the helper function returned
    providers,   \* AuthzProvider.Providers of the webhook server
    azureNew,    \* whether azure.New succeeds under the server's options
    hreq,        \* the HTTP request the handler served last
    hresp,       \* what the handler did and wrote for it
    op,          \* the store operation made last, by itself
    setLog,      \* for every key, its last successful Set
    server       \* how far ListenAndServe got and what it set up

(* the helper calls and the webhook handler, idle while Check runs *)
storeOps == <<op, setLog>>

aux == <<fn, input, result, providers, azureNew, hreq, hresp, storeOps, server>>

(* the state of the RBAC client, idle while those run *)
rbac == <<now, headers, expiresAt, tokens, tokenCalls, checkCalls, dataStore,
          pc, req, tokResp, sent, resp, out>>

vars == <<rbac, aux>>

NoToken == [Token |-> 0, Expires |-> 0]
NoSent == [token |-> 0, at |-> 0, ObjectId |-> <<>>]
NoOut == [ret |-> NoResult, hit |-> FALSE, closedIdle |-> FALSE, bodyClosed |-> FALSE, at |-> 0]

Outcome(ret, t) == [NoOut EXCEPT !.ret = ret, !.at = t]

ExpiresValues == {0, 90, 120}

RbacIdle ==
    /\ now = 0
    /\ headers = 0
    /\ expiresAt = ZeroTime
    /\ tokens = <<>>
    /\ tokenCalls = 0
    /\ checkCalls = 0
    /\ dataStore = <<>>
    /\ pc = [t \in Tasks |-> "idle"]
    /\ req = [t \in Tasks |-> ReqGet]
    /\ tokResp = [t \in Tasks |-> NoToken]
    /\ sent = [t \in Tasks |-> NoSent]
    /\ resp = [t \in Tasks |-> NoResponse]
    /\ out = [t \in Tasks |-> NoOut]

HelpersIdle ==
    /\ fn = "none"
    /\ input = NoInput
    /\ result = NoOutput

HandlerIdle ==
    /\ providers = {OrgType}
    /\ azureNew = TRUE
    /\ hreq = NoRequest
    /\ hresp = NoReply

StoreIdle ==
    /\ op = NoOp
    /\ setLog = [k \in StoreKeys |-> NeverSet]

Init ==
    /\ RbacIdle
    /\ HelpersIdle
    /\ HandlerIdle
    /\ StoreIdle
    /\ server = Serving({OrgType})

IsTokenExpired_atOrPast == expiresAt <= now

IsTokenExpired == expiresAt < now

CachedDecision(value) ==
    IF value THEN Decision(TRUE, FALSE, AccessAllowedVerdict)
    ELSE Decision(FALSE, TRUE, AccessNotAllowedVerdict)

(* Authorizer.Check, step 1: the cache lookup; a hit is returned at once  *)
Check(t, r) ==
    /\ pc[t] = "idle"
    /\ req' = [req EXCEPT ![t] = r]
    /\ LET c == GetResultFromCache(dataStore, r, now)
       IN IF c.found
          THEN /\ out' = [out EXCEPT ![t] = [Outcome(CachedDecision(c.value), now)
                                                  EXCEPT !.hit = TRUE]]
               /\ pc' = [pc EXCEPT ![t] = "done"]
          ELSE /\ out' = [out EXCEPT ![t] = NoOut]
               /\ pc' = [pc EXCEPT ![t] = "isExpired"]
    /\ tokResp' = [tokResp EXCEPT ![t] = NoToken]
    /\ sent' = [sent EXCEPT ![t] = NoSent]
    /\ resp' = [resp EXCEPT ![t] = NoResponse]
    /\ UNCHANGED <<now, headers, expiresAt, tokens, tokenCalls, checkCalls, dataStore>>
    /\ UNCHANGED aux

(* Authorizer.Check, step 3: refresh the token when it has expired        *)
EnsureToken(t) ==
    /\ pc[t] = "isExpired"
    /\ pc' = [pc EXCEPT ![t] = IF IsTokenExpired THEN "acquire" ELSE "checkAccess"]
    /\ UNCHANGED <<now, headers, expiresAt, tokens, tokenCalls, checkCalls, dataStore,
                   req, tokResp, sent, resp, out>>
    /\ UNCHANGED aux

RefreshAcquire_clearsOnFailure(t, ok, e) ==
    /\ pc[t] = "acquire"
    /\ tokenCalls < MaxTokenCalls
    /\ tokenCalls' = tokenCalls + 1
    /\ IF ok
       THEN /\ tokens' = Append(tokens, now + e)
            /\ tokResp' = [tokResp EXCEPT ![t] = [Token |-> Len(tokens) + 1, Expires |-> e]]
            /\ pc' = [pc EXCEPT ![t] = "setHeader"]
            /\ out' = out
            /\ UNCHANGED <<headers, expiresAt>>
       ELSE /\ out' = [out EXCEPT ![t] = Outcome(Error("failed to refresh rbac token"), now)]
            /\ pc' = [pc EXCEPT ![t] = "done"]
            /\ headers' = 0
            /\ expiresAt' = ZeroTime
            /\ UNCHANGED <<tokens, tokResp>>
    /\ UNCHANGED <<now, checkCalls, dataStore, req, sent, resp>>
    /\ UNCHANGED aux

(* RefreshToken: the call of tokenProvider.Acquire and its error return   *)
RefreshAcquire(t, ok, e) ==
    /\ pc[t] = "acquire"
    /\ tokenCalls < MaxTokenCalls
    /\ tokenCalls' = tokenCalls + 1
    /\ IF ok
       THEN /\ tokens' = Append(tokens, now + e)
            /\ tokResp' = [tokResp EXCEPT ![t] = [Token |-> Len(tokens) + 1, Expires |-> e]]
            /\ pc' = [pc EXCEPT ![t] = "setHeader"]
            /\ out' = out
       ELSE /\ out' = [out EXCEPT ![t] = Outcome(Error("failed to refresh rbac token"), now)]
            /\ pc' = [pc EXCEPT ![t] = "done"]
            /\ UNCHANGED <<tokens, tokResp>>
    /\ UNCHANGED <<now, headers, expiresAt, checkCalls, dataStore, req, sent, resp>>
    /\ UNCHANGED aux

(* RefreshToken: a.headers.Set("Authorization", ...)                       *)
RefreshSetHeader(t) ==
    /\ pc[t] = "setHeader"
    /\ headers' = tokResp[t].Token
    /\ pc' = [pc EXCEPT ![t] = "setExpiresAt"]
    /\ UNCHANGED <<now, expiresAt, tokens, tokenCalls, checkCalls, dataStore,
                   req, tokResp, sent, resp, out>>
    /\ UNCHANGED aux

(* RefreshToken: a.expiresAt = time.Now().Add(expIn - expiryDelta)         *)
RefreshSetExpiresAt(t) ==
    /\ pc[t] = "setExpiresAt"
    /\ expiresAt' = now + (tokResp[t].Expires - expiryDelta)
    /\ pc' = [pc EXCEPT ![t] = "checkAccess"]
    /\ UNCHANGED <<now, headers, tokens, tokenCalls, checkCalls, dataStore,
                   req, tokResp, sent, resp, out>>
    /\ UNCHANGED aux

(* CheckAccess up to client.Do: the body is prepared and the request sent *)
CheckAccessSend(t) ==
    /\ pc[t] = "checkAccess"
    /\ LET body == prepareCheckAccessRequestBody(req[t])
       IN IF body.err # ""
          THEN /\ out' = [out EXCEPT ![t] =
                            Outcome(Error("error in preparing check access request"), now)]
               /\ pc' = [pc EXCEPT ![t] = "done"]
               /\ UNCHANGED <<sent, checkCalls>>
          ELSE /\ checkCalls < MaxCheckCalls
               /\ checkCalls' = checkCalls + 1
               /\ sent' = [sent EXCEPT ![t] =
                            [token |-> headers, at |-> now, ObjectId |-> body.ObjectId]]
               /\ pc' = [pc EXCEPT ![t] = "awaitResp"]
               /\ out' = out
    /\ UNCHANGED <<now, headers, expiresAt, tokens, tokenCalls, dataStore, req, tokResp, resp>>
    /\ UNCHANGED aux

CheckAccessReceive_resends(t, rsp) ==
    /\ pc[t] = "awaitResp"
    /\ LET res == CheckAccessResult(rsp, req[t], dataStore, now)
           again == rsp.kind = "transportError" \/ rsp.StatusCode # StatusOK
       IN /\ dataStore' = res.store
          /\ out' = [out EXCEPT ![t] = [ret |-> res.ret, hit |-> FALSE,
                                        closedIdle |-> res.closedIdle,
                                        bodyClosed |-> res.bodyClosed, at |-> now]]
          /\ pc' = [pc EXCEPT ![t] = IF again THEN "checkAccess"
                                     ELSE IF res.panicked THEN "panicked" ELSE "done"]
    /\ resp' = [resp EXCEPT ![t] = rsp]
    /\ UNCHANGED <<now, headers, expiresAt, tokens, tokenCalls, checkCalls, req, tokResp, sent>>
    /\ UNCHANGED aux

(* CheckAccess from the return of client.Do to its own return             *)
CheckAccessReceive(t, rsp) ==
    /\ pc[t] = "awaitResp"
    /\ LET res == CheckAccessResult(rsp, req[t], dataStore, now)
       IN /\ dataStore' = res.store
          /\ out' = [out EXCEPT ![t] = [ret |-> res.ret, hit |-> FALSE,
                                        closedIdle |-> res.closedIdle,
                                        bodyClosed |-> res.bodyClosed, at |-> now]]
          /\ pc' = [pc EXCEPT ![t] = IF res.panicked THEN "panicked" ELSE "done"]
    /\ resp' = [resp EXCEPT ![t] = rsp]
    /\ UNCHANGED <<now, headers, expiresAt, tokens, tokenCalls, checkCalls, req, tokResp, sent>>
    /\ UNCHANGED aux

(* the call is over and its task ends; req, sent, resp and out keep the   *)
(* record of the call until the task serves its next request              *)
Return(t) ==
    /\ pc[t] \in {"done", "panicked"}
    /\ pc' = [pc EXCEPT ![t] = "idle"]
    /\ UNCHANGED <<now, headers, expiresAt, tokens, tokenCalls, checkCalls, dataStore,
                   req, tokResp, sent, resp, out>>
    /\ UNCHANGED aux

Tick ==
    /\ now + Quantum <= MaxTime
    /\ now' = now + Quantum
    /\ UNCHANGED <<headers, expiresAt, tokens, tokenCalls, checkCalls, dataStore,
                   pc, req, tokResp, sent, resp, out>>
    /\ UNCHANGED aux

(* one webhook request at a time *)
Step(t) ==
    \/ \E r \in Requests : Check(t, r)
    \/ EnsureToken(t)
    \/ \E ok \in BOOLEAN, e \in ExpiresValues : RefreshAcquire(t, ok, e)
    \/ RefreshSetHeader(t)
    \/ RefreshSetExpiresAt(t)
    \/ CheckAccessSend(t)
    \/ \E rsp \in Responses : CheckAccessReceive(t, rsp)
    \/ Return(t)

Next ==
    \/ Step("t1")
    \/ Tick

Spec == Init /\ [][Next]_vars

(* the steps a call takes by itself: between them the goroutine only     *)
(* computes, so the scheduler lets each of them happen; the answers of    *)
(* the token provider and of the policy API are the remote side's to give *)
(* and the client (http.DefaultClient, no Timeout, no request context)    *)
(* has no step of its own that ends the wait for them                     *)
LocalStep(t) ==
    \/ EnsureToken(t)
    \/ RefreshSetHeader(t)
    \/ RefreshSetExpiresAt(t)
    \/ CheckAccessSend(t)
    \/ Return(t)

SpecFair == Init /\ [][Next]_vars /\ WF_vars(LocalStep("t1"))

(* ------------------- the webhook, client by client -------------------- *)
(* ServeHTTP from getAuthzProviderClient on: azure.New is called for      *)
(* every request and builds its client with rbac.New, as clientSetup of   *)
(* the tests does; newAccessInfo gives the client headers that hold       *)
(* Content-Type alone and leaves expiresAt the zero time. The store is    *)
(* the handler's and is handed to every client. Then client.Check begins. *)
ServeCheck(t, r) ==
    /\ pc[t] = "idle"
    /\ headers' = 0
    /\ expiresAt' = ZeroTime
    /\ req' = [req EXCEPT ![t] = r]
    /\ LET c == GetResultFromCache(dataStore, r, now)
       IN IF c.found
          THEN /\ out' = [out EXCEPT ![t] = [Outcome(CachedDecision(c.value), now)
                                                  EXCEPT !.hit = TRUE]]
               /\ pc' = [pc EXCEPT ![t] = "done"]
          ELSE /\ out' = [out EXCEPT ![t] = NoOut]
               /\ pc' = [pc EXCEPT ![t] = "isExpired"]
    /\ tokResp' = [tokResp EXCEPT ![t] = NoToken]
    /\ sent' = [sent EXCEPT ![t] = NoSent]
    /\ resp' = [resp EXCEPT ![t] = NoResponse]
    /\ UNCHANGED <<now, tokens, tokenCalls, checkCalls, dataStore>>
    /\ UNCHANGED aux

WebhookRequests == {ReqGet, ReqDelete, ReqNoOid}

NextWebhook ==
    \/ \E r \in WebhookRequests : ServeCheck("t1", r)
    \/ EnsureToken("t1")
    \/ \E ok \in BOOLEAN, e \in ExpiresValues : RefreshAcquire("t1", ok, e)
    \/ RefreshSetHeader("t1")
    \/ RefreshSetExpiresAt("t1")
    \/ CheckAccessSend("t1")
    \/ \E rsp \in Responses : CheckAccessReceive("t1", rsp)
    \/ Return("t1")
    \/ Tick

SpecWebhook == Init /\ [][NextWebhook]_vars

(* ------------------- two tasks on the same client --------------------- *)
ConcurrentRequests == {ReqGet}

ConcurrentResponses ==
    {TransportError, HTTPResponse(StatusOK, <<"5">>, FALSE, BodyArray(<<DecAllowed>>))}

ConcurrentExpires == {90, 120}

(* the steps of Step(t), the requests and the answers of the policy API   *)
(* being the few above; RefreshToken and CheckAccess take no lock, so the *)
(* steps of the two tasks interleave freely                               *)
ConcurrentStep(t) ==
    \/ \E r \in ConcurrentRequests : Check(t, r)
    \/ EnsureToken(t)
    \/ \E ok \in BOOLEAN, e \in ConcurrentExpires : RefreshAcquire(t, ok, e)
    \/ RefreshSetHeader(t)
    \/ RefreshSetExpiresAt(t)
    \/ CheckAccessSend(t)
    \/ \E rsp \in ConcurrentResponses : CheckAccessReceive(t, rsp)
    \/ Return(t)

NextConcurrent ==
    \/ ConcurrentStep("t1")
    \/ ConcurrentStep("t2")
    \/ Tick

SpecConcurrent == Init /\ [][NextConcurrent]_vars

(* ------------------------ the store, by itself ------------------------ *)
MaxSets == 3

LastN == LET ns == {setLog[k].n : k \in StoreKeys}
         IN CHOOSE n \in ns : \A o \in ns : o <= n

(* SetResultInCache(request, result) and the error it returns *)
CacheSet(r, value) ==
    LET key == getResultCacheKey(r)
    IN /\ LastN < MaxSets
       /\ dataStore' = SetResultInCache(dataStore, r, value, now)
       /\ op' = [kind |-> "Set", key |-> key, value |-> value, found |-> FALSE,
                 err |-> ~StoreFits(key), at |-> now]
       /\ setLog' = IF StoreFits(key)
                    THEN [setLog EXCEPT ![key] = [n |-> LastN + 1, at |-> now, value |-> value]]
                    ELSE setLog
       /\ UNCHANGED <<now, headers, expiresAt, tokens, tokenCalls, checkCalls,
                      pc, req, tokResp, sent, resp, out>>
       /\ UNCHANGED <<fn, input, result, providers, azureNew, hreq, hresp, server>>

(* GetResultFromCache(request) *)
CacheGet(r) ==
    LET c == GetResultFromCache(dataStore, r, now)
    IN /\ op' = [kind |-> "Get", key |-> getResultCacheKey(r), value |-> c.value,
                 found |-> c.found, err |-> FALSE, at |-> now]
       /\ UNCHANGED <<rbac, setLog>>
       /\ UNCHANGED <<fn, input, result, providers, azureNew, hreq, hresp, server>>

NextStore ==
    \/ \E r \in StoreRequests, v \in BOOLEAN : CacheSet(r, v)
    \/ \E r \in StoreRequests : CacheGet(r)
    \/ Tick

SpecStore == Init /\ [][NextStore]_vars

(* ---------------------- helper functions, applied --------------------- *)
InitHelpers ==
    /\ RbacIdle
    /\ HandlerIdle
    /\ StoreIdle
    /\ server = Serving({OrgType})
    /\ fn = "none"
    /\ input \in Inputs
    /\ result = NoOutput

Apply(f, value) ==
    /\ fn = "none"
    /\ input.for = f
    /\ fn' = f
    /\ result' = value
    /\ UNCHANGED <<input, providers, azureNew, hreq, hresp, rbac, storeOps, server>>

CallGetResultCacheKey ==
    Apply("getResultCacheKey",
          [NoOutput EXCEPT !.key1 = getResultCacheKey(input.r1),
                           !.key2 = getResultCacheKey(input.r2)])

CallGetActionName ==
    Apply("getActionName", [NoOutput EXCEPT !.action = getActionName(input.verb)])

CallGetScope ==
    Apply("getScope", [NoOutput EXCEPT !.scope = getScope(input.resourceId, input.attr)])

CallSkipAuthzCheck ==
    Apply("SkipAuthzCheck",
          [NoOutput EXCEPT !.skip = SkipAuthzCheck(clusterTypeOf(input.clsuterType),
                                                   skipCheckOf(input.skipList), input.r1)])

CallPrepareBody ==
    Apply("prepareCheckAccessRequestBody",
          [NoOutput EXCEPT !.subject =
               SubjectAttributes(input.r1, input.retrieveGroupMemberships)])

CallGetDataAction ==
    Apply("getDataAction", [NoOutput EXCEPT !.actions = Actions(input.r1, input.clusterType)])

(* CheckAccess as far as the request it makes: its URL, and the resource  *)
(* id of its body                                                          *)
CallCheckAccess ==
    Apply("CheckAccess",
          [NoOutput EXCEPT !.url = checkAccessURL(input.apiPath, input.resourceId, input.r1),
                           !.scope = getScope(input.resourceId, input.r1.ResourceAttributes)])

NextHelpers ==
    \/ CallGetDataAction
    \/ CallCheckAccess
    \/ CallGetResultCacheKey
    \/ CallGetActionName
    \/ CallGetScope
    \/ CallSkipAuthzCheck
    \/ CallPrepareBody

SpecHelpers == InitHelpers /\ [][NextHelpers]_vars

(* --------------------------- handler, serving ------------------------- *)
InitHandler ==
    /\ RbacIdle
    /\ HelpersIdle
    /\ StoreIdle
    /\ providers \in ProviderConfigs
    /\ server = Serving(providers)
    /\ azureNew \in BOOLEAN
    /\ hreq = NoRequest
    /\ hresp = NoReply

(* the client for an organization, or the error *)
getAuthzProviderClient(org) ==
    IF ToLower(org) = OrgType
    THEN IF azureNew
         THEN [client |-> "azure", err |-> NoError]
         ELSE [client |-> "", err |-> NewError("failed to create ms rbac client", <<>>)]
    ELSE [client |-> "", err |-> NewError("Client is using unknown organization", org)]

ServeHTTP_anyCertificate(rq, cr) ==
    /\ hreq' = rq
    /\ hresp' =
         IF ~rq.TLS \/ Len(rq.PeerCertificates) = 0
         THEN writeAuthzResponse(NoReply, FALSE, NoResult,
                  WithCode(NewError("Missing client certificate", <<>>), StatusBadRequest))
         ELSE LET crt == rq.PeerCertificates[1]
                  org == IF Len(crt.Organization) = 0 THEN <<>> ELSE crt.Organization[1]
                  decoded == [NoReply EXCEPT !.decoded = TRUE]
                  looked == [decoded EXCEPT !.has = TRUE]
                  got == getAuthzProviderClient(org)
              IN IF ~rq.BodyOK
                 THEN writeAuthzResponse(decoded, FALSE, NoResult,
                          WithCode(NewError("Failed to parse request", <<>>), StatusBadRequest))
                 ELSE IF ~Has(providers, org)
                 THEN writeAuthzResponse(looked, TRUE, NoResult,
                          WithCode(NewError("guard does not provide service for", org),
                                   StatusBadRequest))
                 ELSE IF got.err # NoError
                 THEN writeAuthzResponse(looked, TRUE, NoResult, got.err)
                 ELSE writeAuthzResponse([looked EXCEPT !.resolved = TRUE, !.checks = 1, !.returned = cr],
                          TRUE,
                          IF cr.status = "error" THEN NoResult ELSE cr,
                          IF cr.status = "error" THEN NewError(cr.err, <<>>) ELSE NoError)
    /\ UNCHANGED <<providers, azureNew, fn, input, result, rbac, storeOps, server>>

ServeHTTP_lookupFirst(rq, cr) ==
    /\ hreq' = rq
    /\ hresp' =
         IF ~rq.TLS \/ Len(rq.PeerCertificates) = 0
         THEN writeAuthzResponse(NoReply, FALSE, NoResult,
                  WithCode(NewError("Missing client certificate", <<>>), StatusBadRequest))
         ELSE LET crt == rq.PeerCertificates[1]
              IN IF Len(crt.Organization) = 0
                 THEN writeAuthzResponse(NoReply, FALSE, NoResult,
                          WithCode(NewError("Client certificate is missing organization", <<>>),
                                   StatusBadRequest))
                 ELSE LET org == crt.Organization[1]
                          decoded == [NoReply EXCEPT !.decoded = TRUE]
                          looked == [decoded EXCEPT !.has = TRUE]
                          got == getAuthzProviderClient(org)
                      IN IF ~Has(providers, org)
                         THEN writeAuthzResponse(looked, TRUE, NoResult,
                                  WithCode(NewError("guard does not provide service for", org),
                                           StatusBadRequest))
                         ELSE IF ~rq.BodyOK
                         THEN writeAuthzResponse(decoded, FALSE, NoResult,
                                  WithCode(NewError("Failed to parse request", <<>>),
                                           StatusBadRequest))
                         ELSE IF got.err # NoError
                         THEN writeAuthzResponse(looked, TRUE, NoResult, got.err)
                         ELSE writeAuthzResponse(
                                  [looked EXCEPT !.resolved = TRUE, !.checks = 1, !.returned = cr], TRUE,
                                  IF cr.status = "error" THEN NoResult ELSE cr,
                                  IF cr.status = "error" THEN NewError(cr.err, <<>>)
                                  ELSE NoError)
    /\ UNCHANGED <<providers, azureNew, fn, input, result, rbac, storeOps, server>>

(* Authzhandler.ServeHTTP for request rq, cr being what Check returns     *)
(* when the handler gets as far as calling it                             *)
ServeHTTP(rq, cr) ==
    /\ hreq' = rq
    /\ hresp' =
         IF ~rq.TLS \/ Len(rq.PeerCertificates) = 0
         THEN writeAuthzResponse(NoReply, FALSE, NoResult,
                  WithCode(NewError("Missing client certificate", <<>>), StatusBadRequest))
         ELSE LET crt == rq.PeerCertificates[1]
              IN IF Len(crt.Organization) = 0
                 THEN writeAuthzResponse(NoReply, FALSE, NoResult,
                          WithCode(NewError("Client certificate is missing organization", <<>>),
                                   StatusBadRequest))
                 ELSE LET org == crt.Organization[1]
                          decoded == [NoReply EXCEPT !.decoded = TRUE]
                          looked == [decoded EXCEPT !.has = TRUE]
                          got == getAuthzProviderClient(org)
                      IN IF ~rq.BodyOK
                         THEN writeAuthzResponse(decoded, FALSE, NoResult,
                                  WithCode(NewError("Failed to parse request", <<>>),
                                           StatusBadRequest))
                         ELSE IF ~Has(providers, org)
                         THEN writeAuthzResponse(looked, TRUE, NoResult,
                                  WithCode(NewError("guard does not provide service for", org),
                                           StatusBadRequest))
                         ELSE IF got.err # NoError
                         THEN writeAuthzResponse(looked, TRUE, NoResult, got.err)
                         ELSE writeAuthzResponse(
                                  [looked EXCEPT !.resolved = TRUE, !.checks = 1, !.returned = cr], TRUE,
                                  IF cr.status = "error" THEN NoResult ELSE cr,
                                  IF cr.status = "error" THEN NewError(cr.err, <<>>)
                                  ELSE NoError)
    /\ UNCHANGED <<providers, azureNew, fn, input, result, rbac, storeOps, server>>

NextHandler == \E rq \in HTTPRequests, cr \in CheckReturns : ServeHTTP(rq, cr)

SpecHandler == InitHandler /\ [][NextHandler]_vars

(* ----------------------- the server, from start ----------------------- *)
InitServer ==
    /\ RbacIdle
    /\ HelpersIdle
    /\ StoreIdle
    /\ providers \in ProviderConfigs \cup {{}}
    /\ server = NotStarted
    /\ azureNew \in BOOLEAN
    /\ hreq = NoRequest
    /\ hresp = NoReply

(* Server.ListenAndServe from "setting up authz providers" on: the        *)
(* endpoint is registered when there are providers, the store made when   *)
(* azure is among them, and glog.Fatalf ends the process when it cannot   *)
(* be made; then the server listens                                       *)
ListenAndServe(storeOK) ==
    /\ server = NotStarted
    /\ server' = IF providers # {} /\ Has(providers, OrgType) /\ ~storeOK
                 THEN Aborted
                 ELSE Serving(providers)
    /\ UNCHANGED <<providers, azureNew, hreq, hresp, fn, input, result, rbac, storeOps>>

(* a POST to /subjectaccessreviews reaches the handler *)
PostSubjectAccessReview(rq, cr) ==
    /\ server.phase = "serving"
    /\ server.registered
    /\ ServeHTTP(rq, cr)

NextServer ==
    \/ \E storeOK \in BOOLEAN : ListenAndServe(storeOK)
    \/ \E rq \in HTTPRequests, cr \in CheckReturns : PostSubjectAccessReview(rq, cr)

SpecServer == InitServer /\ [][NextServer]_vars

(* ------------------------- steps of the calls ------------------------- *)
(* task t begins a Check *)
CheckStep(t) == pc[t] = "idle" /\ pc'[t] # "idle"

(* task t's CheckAccess gets the outcome of client.Do and runs to its end *)
ReceiveStep(t) == pc[t] = "awaitResp" /\ pc'[t] # "awaitResp"

(* the entry the store holds, unexpired, under key *)
Holds(store, key, value, t) ==
    \E i \in 1..Len(store) :
        store[i].key = key /\ store[i].value = value /\ t - store[i].at < LifeWindow

HoldsKey(store, key, t) == \E v \in BOOLEAN : Holds(store, key, v, t)

ReadableOK(rsp) == rsp.kind = "response" /\ ~rsp.readErr /\ rsp.StatusCode = StatusOK

AllowedSpellings == {DecAllowed, DecAllowedCap, DecAllowedUpper}

(* ------------------------------- C1 ----------------------------------- *)
(* A Check that finds an unexpired entry under its request's key returns  *)
(* the cached decision with no call to the token provider or the API.     *)
C1_HitReturnsCached(t) ==
    CheckStep(t) =>
        \A v \in BOOLEAN :
            Holds(dataStore, getResultCacheKey(req'[t]), v, now) =>
                /\ pc'[t] = "done"
                /\ out'[t].ret = CachedDecision(v)
                /\ tokenCalls' = tokenCalls
                /\ checkCalls' = checkCalls

(* the request the task served last got its decision from the API, and   *)
(* the life window has not elapsed since                                   *)
RepeatsWithinLifeWindow(t) ==
    /\ CheckStep(t)
    /\ req'[t] = req[t]
    /\ out[t].ret.status = "decision"
    /\ ~out[t].hit
    /\ now - out[t].at < LifeWindow

NoRemoteCall(t) == pc'[t] = "done" /\ tokenCalls' = tokenCalls /\ checkCalls' = checkCalls

C2_SuccessAlwaysCached ==
    [][\A t \in Tasks :
          (ReceiveStep(t) /\ ReadableOK(resp'[t]) /\ StoreFits(getResultCacheKey(req[t]))) =>
              /\ pc'[t] = "done"
              /\ IF resp'[t].body.json = "invalid"
                 THEN /\ out'[t].ret.status = "error"
                      /\ Holds(dataStore', getResultCacheKey(req[t]), FALSE, now)
                 ELSE /\ out'[t].ret.status = "decision"
                      /\ Holds(dataStore', getResultCacheKey(req[t]), out'[t].ret.allowed, now)]_vars

(* ------------------------------- C3 ----------------------------------- *)
FailedResponse(rsp) ==
    \/ rsp.kind = "transportError"
    \/ rsp.kind = "response" /\ rsp.readErr
    \/ rsp.kind = "response" /\ rsp.StatusCode # StatusOK
    \/ ReadableOK(rsp) /\ rsp.body.json = "invalid"

(* C3 as stated: after a transport failure, a non-success status, an      *)
(* unreadable or an unparsable body, CheckAccess returns an error and the *)
(* store holds a deny under the request's key.                             *)
C3_Original ==
    [][\A t \in Tasks :
          (ReceiveStep(t) /\ FailedResponse(resp'[t]) /\ StoreFits(getResultCacheKey(req[t]))) =>
              /\ pc'[t] = "done"
              /\ out'[t].ret.status = "error"
              /\ Holds(dataStore', getResultCacheKey(req[t]), FALSE, now)]_vars

(* C3 amended: each of these failures makes CheckAccess return an error;  *)
(* only the unparsable body of a success response records a deny (when    *)
(* the key is within the entry size ceiling), the other failures leave    *)
(* the store as it was.                                                    *)
C3_ErrorsAndCache ==
    [][\A t \in Tasks :
          (ReceiveStep(t) /\ FailedResponse(resp'[t])) =>
              /\ pc'[t] = "done"
              /\ out'[t].ret.status = "error"
              /\ IF ReadableOK(resp'[t])
                 THEN StoreFits(getResultCacheKey(req[t]))
                        => Holds(dataStore', getResultCacheKey(req[t]), FALSE, now)
                 ELSE dataStore' = dataStore]_vars

C3_Witness ==
    \E t \in Tasks :
        /\ pc[t] = "done"
        /\ resp[t].kind = "response"
        /\ resp[t].StatusCode = 500
        /\ out[t].ret.status = "error"
        /\ ~HoldsKey(dataStore, getResultCacheKey(req[t]), now)
        /\ StoreFits(getResultCacheKey(req[t]))

(* ------------------------------- C4 ----------------------------------- *)
(* C4: no CheckAccess ends in a crash, and one that ends has returned an  *)
(* error or a decision.                                                    *)
C4_NeverCrashes ==
    \A t \in Tasks :
        /\ pc[t] # "panicked"
        /\ pc[t] = "done" => out[t].ret.status \in {"decision", "error"}

(* ------------------------------- C5 ----------------------------------- *)
(* C5: for a parsed response with a first decision, the call returns      *)
(* allowed (not denied, reason "Access allowed") when that first decision *)
(* spells "allowed" in any letter case, denied (not allowed) otherwise,   *)
(* whatever follows the first decision.                                    *)
C5_FirstDecisionDecides ==
    \A t \in Tasks :
        (pc[t] = "done" /\ ReadableOK(resp[t]) /\ resp[t].body.json # "invalid"
            /\ resp[t].body.items # <<>>) =>
            IF resp[t].body.items[1] \in AllowedSpellings
            THEN out[t].ret = Decision(TRUE, FALSE, AccessAllowedVerdict)
            ELSE out[t].ret = Decision(FALSE, TRUE, AccessNotAllowedVerdict)

C5_Witness ==
    \E t \in Tasks :
        /\ pc[t] = "done"
        /\ ReadableOK(resp[t])
        /\ resp[t].body = BodyArray(<<DecAllowedUpper>>)
        /\ out[t].ret.allowed
        /\ ~out[t].ret.denied

C5_WitnessLaterIgnored ==
    \E t \in Tasks :
        /\ pc[t] = "done"
        /\ ReadableOK(resp[t])
        /\ resp[t].body = BodyArray(<<DecDenied, DecAllowed>>)
        /\ out[t].ret.denied

(* ------------------------------- C6 ----------------------------------- *)
WellFormedUUID(s) ==
    s \in {<<"U36">>, <<"H32">>, <<"urn:uuid:", "U36">>, <<"{", "U36", "}">>}

OneWellFormedOid(r) == r.HasOid /\ Len(r.Oid) = 1 /\ WellFormedUUID(r.Oid[1])

(* C6: a CheckAccess whose request has no "oid" claim, or one that is not *)
(* exactly one well-formed UUID, fails before a check-access request is   *)
(* sent and leaves the store unchanged.                                    *)
C6_BadOidFailsBeforeSend ==
    [][\A t \in Tasks :
          (pc[t] = "checkAccess" /\ pc'[t] # "checkAccess" /\ ~OneWellFormedOid(req[t])) =>
              /\ pc'[t] = "done"
              /\ out'[t].ret.status = "error"
              /\ checkCalls' = checkCalls
              /\ dataStore' = dataStore]_vars

(* ------------------------------- C7 ----------------------------------- *)
(* C7: a check-access request carries a token only at a time before the   *)
(* token's real expiry less the 60 s skew.                                 *)
C7_TokenFreshWhenSent ==
    \A t \in Tasks :
        (pc[t] = "awaitResp" /\ sent[t].token # 0) =>
            sent[t].at < tokens[sent[t].token] - expiryDelta

(* ------------------------------- C8 ----------------------------------- *)
ExpiryTestStep(t) == pc[t] = "isExpired" /\ pc'[t] # "isExpired"

(* C8 as stated: the expiry test says expired exactly when the clock is   *)
(* at or past the stored skew-adjusted expiry, the equal instant included.*)
C8_Original ==
    [][\A t \in Tasks :
          ExpiryTestStep(t) => (pc'[t] = "acquire" <=> now >= expiresAt)]_vars

(* C8 amended: the expiry test says expired exactly when the clock is     *)
(* strictly past the stored expiry, which a refresh sets to its own clock *)
(* plus the token's lifetime less 60 s; at the equal instant and earlier  *)
(* it says not expired, and before any refresh it says expired.           *)
C8_ExpiredStrictlyAfter ==
    [][\A t \in Tasks :
          /\ ExpiryTestStep(t) => (pc'[t] = "acquire" <=> now > expiresAt)
          /\ (ExpiryTestStep(t) /\ tokens = <<>>) => pc'[t] = "acquire"
          /\ (pc[t] = "setExpiresAt" /\ pc'[t] # "setExpiresAt")
                => expiresAt' = now + tokResp[t].Expires - 60]_vars

C8_Witness ==
    \E t \in Tasks :
        /\ pc[t] = "checkAccess"
        /\ tokResp[t] = NoToken
        /\ now = expiresAt

(* ------------------------------- C9 ----------------------------------- *)
(* C9: a refresh whose Acquire fails returns an error and leaves the      *)
(* Authorization header and the expiry as they were; one that succeeds    *)
(* stores the new token in the header and sets the expiry from it.        *)
C9_RefreshFrame ==
    [][\A t \in Tasks :
          /\ (pc[t] = "acquire" /\ pc'[t] = "done")
                => /\ out'[t].ret.status = "error"
                   /\ headers' = headers
                   /\ expiresAt' = expiresAt
          /\ (pc[t] = "acquire" /\ pc'[t] = "setHeader")
                => /\ tokResp'[t].Token = Len(tokens')
                   /\ Len(tokens') = Len(tokens) + 1
                   /\ headers' = headers
                   /\ expiresAt' = expiresAt
          /\ (pc[t] = "setHeader" /\ pc'[t] # "setHeader")
                => headers' = tokResp[t].Token
          /\ (pc[t] = "setExpiresAt" /\ pc'[t] # "setExpiresAt")
                => /\ expiresAt' = now + tokResp[t].Expires - expiryDelta
                   /\ headers' = tokResp[t].Token]_vars

C9_Witness ==
    \E t \in Tasks :
        /\ pc[t] = "done"
        /\ out[t].ret = Error("failed to refresh rbac token")
        /\ headers = 1
        /\ expiresAt = tokens[1] - expiryDelta

(* ------------------------------- C10 ---------------------------------- *)
AmpleRemaining == <<"5">>

(* C10: a success response gives the same return value and the same store *)
(* whatever remaining quota it reports, and a too-many-requests response  *)
(* gives what any other failing status gives, the closing of the idle     *)
(* connections being the only difference.                                  *)
C10_ThrottleNeverFails ==
    [][\A t \in Tasks :
          (ReceiveStep(t) /\ resp'[t].kind = "response" /\ ~resp'[t].readErr) =>
              IF resp'[t].StatusCode = StatusOK
              THEN LET ample == CheckAccessResult([resp'[t] EXCEPT !.remaining = AmpleRemaining],
                                                  req[t], dataStore, now)
                   IN /\ Atoi(AmpleRemaining) >= armCallLimit
                      /\ out'[t].ret = ample.ret
                      /\ dataStore' = ample.store
                      /\ (pc'[t] = "panicked") = ample.panicked
              ELSE LET other == CheckAccessResult([resp'[t] EXCEPT !.StatusCode = 500],
                                                  req[t], dataStore, now)
                   IN /\ out'[t].ret = other.ret
                      /\ out'[t].ret.status = "error"
                      /\ dataStore' = other.store
                      /\ dataStore' = dataStore
                      /\ pc'[t] = "done"
                      /\ out'[t].closedIdle = (resp'[t].StatusCode = StatusTooManyRequests)]_vars

C10_Witness ==
    \E t \in Tasks :
        /\ pc[t] = "done"
        /\ ReadableOK(resp[t])
        /\ resp[t].remaining = <<"1">>
        /\ out[t].closedIdle
        /\ out[t].ret.status = "decision"
        /\ out[t].ret.allowed
        /\ Holds(dataStore, getResultCacheKey(req[t]), TRUE, now)

C10_WitnessTooManyRequests ==
    \E t \in Tasks :
        /\ pc[t] = "done"
        /\ resp[t].kind = "response"
        /\ resp[t].StatusCode = StatusTooManyRequests
        /\ out[t].closedIdle
        /\ out[t].ret.status = "error"

(* ------------------------------- C11 ---------------------------------- *)
SendStep(t) == pc[t] = "checkAccess" /\ pc'[t] = "awaitResp"

(* C11: one Check sends at most one check-access request: a request is    *)
(* sent only by the one send step of a call, that step is reached only    *)
(* from the token test or the refresh and never again after the send, and *)
(* the call ends when the response or the failure arrives; after a        *)
(* transport failure or a non-success status it ends with the error and   *)
(* no second request.                                                      *)
C11_AtMostOneRequest ==
    [][\A t \in Tasks :
          /\ checkCalls' # checkCalls =>
                 checkCalls' = checkCalls + 1 /\ \E u \in Tasks : SendStep(u)
          /\ SendStep(t) => checkCalls' = checkCalls + 1
          /\ (pc'[t] = "checkAccess" /\ pc[t] # "checkAccess") =>
                 pc[t] \in {"isExpired", "setExpiresAt"}
          /\ ReceiveStep(t) => pc'[t] \in {"done", "panicked"} /\ checkCalls' = checkCalls
          /\ (pc[t] \in {"done", "panicked"} /\ pc'[t] # pc[t]) => pc'[t] = "idle"
          /\ (ReceiveStep(t) /\ (resp'[t].kind = "transportError"
                                 \/ resp'[t].StatusCode # StatusOK)) =>
                 /\ pc'[t] = "done"
                 /\ out'[t].ret.status = "error"
                 /\ sent'[t] = sent[t]]_vars

C11_Witness ==
    \E t \in Tasks :
        /\ pc[t] = "done"
        /\ resp[t].kind = "response"
        /\ resp[t].StatusCode = 500
        /\ out[t].ret.status = "error"
        /\ checkCalls = 1

(* ------------------------------- C12 ---------------------------------- *)
(* C12: every CheckAccess that has sent its request eventually returns,   *)
(* whether the policy API answers or not.                                  *)
C12_CheckAccessReturns ==
    \A t \in Tasks : (pc[t] = "awaitResp") ~> (pc[t] \in {"done", "panicked"})

(* ------------------------------- C13 ---------------------------------- *)
NoOrganization(rq) ==
    \/ ~rq.TLS
    \/ Len(rq.PeerCertificates) = 0
    \/ Len(rq.PeerCertificates[1].Organization) = 0

(* C13: a request without a TLS peer certificate, or whose first peer     *)
(* certificate has no Organization value, is answered with HTTP 400, and  *)
(* the handler neither decodes the body, nor looks up a provider, nor     *)
(* calls Check.                                                            *)
C13_NoCertificateIs400 ==
    (hresp.written /\ NoOrganization(hreq)) =>
        /\ hresp.code = StatusBadRequest
        /\ ~hresp.decoded
        /\ ~hresp.has
        /\ ~hresp.resolved
        /\ hresp.checks = 0

C13_Witness ==
    /\ hresp.written
    /\ hreq = HTTPRequest(TRUE, <<Cert(<<>>), Cert(<<OrgType>>)>>, TRUE)
    /\ OrgType \in providers
    /\ azureNew
    /\ hresp.code = StatusBadRequest
    /\ hresp.err.msg = "Client certificate is missing organization"

(* ------------------------------- C14 ---------------------------------- *)
ServedOrg == hreq.PeerCertificates[1].Organization[1]

(* C14: when the handler gets no authorizer for the organization of the   *)
(* certificate, it answers with HTTP 400 and an error that names the      *)
(* organization and calls no Check; an organization that is a registered  *)
(* provider with an authorizer up to letter case is dispatched to it.      *)
C14_UnresolvedIs400 ==
    (hresp.written /\ ~NoOrganization(hreq) /\ hreq.BodyOK) =>
        /\ ~hresp.resolved =>
              /\ hresp.code = StatusBadRequest
              /\ hresp.err.org = ServedOrg
              /\ hresp.checks = 0
        /\ (ToLower(ServedOrg) = OrgType /\ \E p \in providers : ToLower(p) = OrgType) =>
              hresp.resolved /\ hresp.checks = 1

(* ------------------------------- C15 ---------------------------------- *)
LetterPairs == {{"a", "A"}, {"d", "D"}, {"n", "N"}}

SameIgnoringCase(a, b) ==
    /\ Len(a) = Len(b)
    /\ \A i \in 1..Len(a) : a[i] = b[i] \/ {a[i], b[i]} \in LetterPairs

(* C15: SkipAuthzCheck is true exactly when the client was built with the *)
(* tag "arc" and the user of the request equals an entry of the skip-list *)
(* up to letter case; with the tag "aks" it is false for every user.       *)
C15_SkipOnlyArcListed ==
    fn = "SkipAuthzCheck" =>
        /\ result.skip <=>
              /\ input.clsuterType = "arc"
              /\ \E i \in 1..Len(input.skipList) :
                     SameIgnoringCase(input.skipList[i], input.r1.User)
        /\ input.clsuterType = "aks" => ~result.skip

C15_Witness ==
    /\ fn = "SkipAuthzCheck"
    /\ input.clsuterType = "arc"
    /\ input.skipList = <<AdaUpper, Dan>>
    /\ input.r1.User = AdaCap
    /\ result.skip

(* ------------------------------- C16 ---------------------------------- *)
(* the table of section 4.3: the action a verb maps to *)
TableAction(verb) ==
    IF verb \in {<<"get">>, <<"list">>, <<"watch">>} THEN <<"read">>
    ELSE IF verb \in {<<"create">>, <<"patch">>, <<"update">>} THEN <<"write">>
    ELSE IF verb \in {<<"delete">>, <<"deletecollection">>} THEN <<"delete">>
    ELSE IF verb \in {<<"bind">>, <<"escalate">>, <<"use">>, <<"impersonate">>}
    THEN verb \o <<"/", "action">>
    ELSE <<>>

IsResourceRequest(r) == r.ResourceAttributes # NoAttr

IsNonResourceRequest(r) == r.ResourceAttributes = NoAttr /\ r.NonResourceAttributes # NoAttr

IfNonEmpty(x) == IF x = <<>> THEN <<>> ELSE <<x>>

(* the sequence the key is made of *)
KeySequence(r) ==
    IF IsResourceRequest(r)
    THEN LET ra == r.ResourceAttributes[1]
         IN <<r.User>> \o IfNonEmpty(ra.Namespace) \o IfNonEmpty(ra.Group)
                \o <<ra.Resource, TableAction(ra.Verb)>>
    ELSE IF IsNonResourceRequest(r)
    THEN LET nra == r.NonResourceAttributes[1]
         IN <<r.User, nra.Path, TableAction(nra.Verb)>>
    ELSE <<r.User>>

(* the fields the key is said to depend on *)
KeyFields(r) ==
    IF IsResourceRequest(r)
    THEN LET ra == r.ResourceAttributes[1]
         IN <<"resource", r.User, ra.Namespace, ra.Group, ra.Resource, TableAction(ra.Verb)>>
    ELSE IF IsNonResourceRequest(r)
    THEN LET nra == r.NonResourceAttributes[1]
         IN <<"path", r.User, <<>>, <<>>, nra.Path, TableAction(nra.Verb)>>
    ELSE <<"none", r.User, <<>>, <<>>, <<>>, <<>>>>

KeysAgree ==
    /\ input.r1 = input.r2 => result.key1 = result.key2
    /\ KeyFields(input.r1) = KeyFields(input.r2) => result.key1 = result.key2

(* C16 as stated: the key is the sequence user, namespace (if non-empty), *)
(* group (if non-empty), resource, mapped action (user, path, mapped      *)
(* action for a non-resource request) joined by "/"; equal requests, and  *)
(* requests that differ only in fields outside it or in verbs of the same *)
(* action, get equal keys.                                                 *)
C16_Original ==
    fn = "getResultCacheKey" =>
        /\ result.key1 = JoinWith(KeySequence(input.r1), <<"/">>)
        /\ result.key2 = JoinWith(KeySequence(input.r2), <<"/">>)
        /\ KeysAgree

StripSlash(x) == IF x # <<>> /\ Head(x) = "/" THEN Tail(x) ELSE x

KeyElements(r) ==
    LET seq == KeySequence(r)
    IN SelectSeq([i \in 1..Len(seq) |-> StripSlash(seq[i])], LAMBDA e : e # <<>>)

(* C16 amended: the key is the non-empty elements of that sequence joined *)
(* by one "/" each, an empty resource or mapped action adding nothing and *)
(* the leading "/" of a non-resource path not being doubled; equal        *)
(* requests, and requests that differ only in fields outside the sequence *)
(* or in verbs of the same action, get equal keys.                         *)
C16_KeyOfNonEmptyElements ==
    fn = "getResultCacheKey" =>
        /\ result.key1 = JoinWith(KeyElements(input.r1), <<"/">>)
        /\ result.key2 = JoinWith(KeyElements(input.r2), <<"/">>)
        /\ KeysAgree

C16_Witness ==
    /\ fn = "getResultCacheKey"
    /\ input.r1 = BaseRequest
    /\ input.r2 = [BaseRequest EXCEPT !.Groups = <<UUID>>]
    /\ result.key1 = <<"alice", "/", "dev", "/", "pods", "/", "read">>
    /\ result.key2 = result.key1

C16_WitnessNonResource ==
    /\ fn = "getResultCacheKey"
    /\ input.r1 = SAR(Bob, TRUE, <<UUID>>, NoAttr, NonResourceAttr(<<"/", "logs">>, Get))
    /\ input.r2 = SAR(Bob, TRUE, <<UUID>>, NoAttr, NonResourceAttr(<<"/", "logs">>, <<"list">>))
    /\ result.key1 = <<"bob", "/", "logs", "/", "read">>
    /\ result.key2 = result.key1

(* ------------------------------- C17 ---------------------------------- *)
(* C17: two requests that differ in the user, the namespace, the group,   *)
(* the resource (or path) or the mapped action never get the same key.     *)
C17_DistinctFieldsDistinctKeys ==
    fn = "getResultCacheKey" =>
        (KeyFields(input.r1) # KeyFields(input.r2) => result.key1 # result.key2)

(* ------------------------------- C18 ---------------------------------- *)
TableVerbs ==
    {<<"get">>, <<"list">>, <<"watch">>, <<"create">>, <<"patch">>, <<"update">>,
     <<"delete">>, <<"deletecollection">>, <<"bind">>, <<"escalate">>, <<"use">>,
     <<"impersonate">>}

(* C18: getActionName gives every verb the action of the table, and the   *)
(* empty action to every verb that is not in the table, the empty verb    *)
(* and the differently-cased spellings among them.                         *)
C18_ActionTable ==
    fn = "getActionName" =>
        /\ result.action = TableAction(input.verb)
        /\ input.verb \notin TableVerbs => result.action = <<>>

C18_Witness ==
    /\ fn = "getActionName"
    /\ input.verb = <<"Get">>
    /\ result.action = <<>>

C18_WitnessCustom ==
    /\ fn = "getActionName"
    /\ input.verb = <<"impersonate">>
    /\ result.action = <<"impersonate", "/", "action">>

(* ------------------------------- C19 ---------------------------------- *)
HasNamespace(attr) == attr # NoAttr /\ attr[1].Namespace # <<>>

(* C19 as stated: getScope returns the resource id unchanged without a    *)
(* namespace, and the resource id, "/namespaces/" and the namespace put   *)
(* together otherwise, the empty resource id included.                     *)
C19_Original ==
    fn = "getScope" =>
        result.scope =
            IF HasNamespace(input.attr)
            THEN input.resourceId \o <<"/", "namespaces", "/">> \o input.attr[1].Namespace
            ELSE input.resourceId

WithoutTrailingSlash(id) ==
    IF Len(id) > 1 /\ id[Len(id)] = "/" THEN SubSeq(id, 1, Len(id) - 1) ELSE id

(* C19 amended: without a namespace the resource id is returned           *)
(* unchanged; with one, a non-empty resource id, less its trailing slash, *)
(* is followed by "/namespaces/" and the namespace, and the empty         *)
(* resource id gives "namespaces/" and the namespace, without a leading   *)
(* slash.                                                                  *)
C19_ScopeIsPathJoin ==
    fn = "getScope" =>
        result.scope =
            IF ~HasNamespace(input.attr) THEN input.resourceId
            ELSE IF input.resourceId = <<>>
            THEN <<"namespaces", "/">> \o input.attr[1].Namespace
            ELSE WithoutTrailingSlash(input.resourceId)
                     \o <<"/", "namespaces", "/">> \o input.attr[1].Namespace

C19_Witness ==
    /\ fn = "getScope"
    /\ input.resourceId = <<>>
    /\ HasNamespace(input.attr)
    /\ input.attr[1].Namespace = Dev
    /\ result.scope = <<"namespaces", "/", "dev">>

(* ------------------------------- C20 ---------------------------------- *)
(* C20: when group memberships are not resolved remotely, the groups of   *)
(* the body are the well-formed UUIDs among the groups of the request, in *)
(* their order, and the flag is false; when they are, the body has no     *)
(* group list and the flag is true.                                        *)
C20_GroupsAreTheUUIDs ==
    fn = "prepareCheckAccessRequestBody" =>
        IF input.retrieveGroupMemberships
        THEN /\ result.subject.Groups = <<>>
             /\ result.subject.RetrieveGroupMemberships
        ELSE /\ result.subject.Groups = SelectSeq(input.r1.Groups, WellFormedUUID)
             /\ ~result.subject.RetrieveGroupMemberships

(* ------------------------------- C21 ---------------------------------- *)
Segments(x) == SelectSeq(x, LAMBDA c : c # "/")

RECURSIVE Flatten(_)
Flatten(seqs) == IF seqs = <<>> THEN <<>> ELSE Head(seqs) \o Flatten(Tail(seqs))

(* the segments of the action id, each as a string *)
IdSegments(r, clusterType) ==
    LET parts == IF IsResourceRequest(r)
                 THEN LET ra == r.ResourceAttributes[1]
                      IN <<clusterType, ra.Group, ra.Resource, TableAction(ra.Verb)>>
                 ELSE IF IsNonResourceRequest(r)
                 THEN LET nra == r.NonResourceAttributes[1]
                      IN <<clusterType, nra.Path, TableAction(nra.Verb)>>
                 ELSE <<clusterType>>
        segs == Segments(Flatten(parts))
    IN [i \in 1..Len(segs) |-> <<segs[i]>>]

(* C21: the body has exactly one action, it is a data action, and its id  *)
(* is the path of the cluster type, the group when there is one, the      *)
(* resource and the mapped action for a request with resource attributes  *)
(* (whether or not it has non-resource attributes too), and of the        *)
(* cluster type, the path and the mapped action for a non-resource one;    *)
(* without a cluster type the id has the remaining segments.               *)
C21_OneDataAction ==
    fn = "getDataAction" =>
        /\ Len(result.actions) = 1
        /\ result.actions[1].IsDataAction
        /\ LET segs == IdSegments(input.r1, input.clusterType)
           IN IF input.clusterType # <<>>
              THEN result.actions[1].Id = JoinWith(segs, <<"/">>)
              ELSE Segments(result.actions[1].Id) = Flatten(segs)

C21_Witness ==
    /\ fn = "getDataAction"
    /\ input.r1 \in BothKindsRequests
    /\ input.r1.ResourceAttributes[1].Group = <<"apps">>
    /\ input.r1.ResourceAttributes[1].Verb = <<"use">>
    /\ input.clusterType = <<"arc">>
    /\ result.actions[1].Id = <<"arc", "/", "apps", "/", "pods", "/", "use", "/", "action">>

(* ------------------------------- C22 ---------------------------------- *)
WasSet(key) == setLog[key].n > 0

WithinLifeWindow(key) == op.at - setLog[key].at < LifeWindow

(* C22 as stated: a Get of a key that was set returns the value of its    *)
(* last Set while the life window since that Set has not elapsed, and     *)
(* nothing once it has.                                                    *)
C22_Original ==
    (op.kind = "Get" /\ WasSet(op.key)) =>
        IF WithinLifeWindow(op.key)
        THEN op.found /\ op.value = setLog[op.key].value
        ELSE ~op.found

(* the keys set after the last Set of key *)
SetSince(key) == {k \in StoreKeys : setLog[k].n > setLog[key].n}

(* C22 amended: within the life window the Get returns the value of the   *)
(* last Set provided fewer other keys than the hard maximum of entries    *)
(* were set since, and nothing once the life window has elapsed.           *)
C22_RoundTrip ==
    (op.kind = "Get" /\ WasSet(op.key)) =>
        IF WithinLifeWindow(op.key)
        THEN Cardinality(SetSince(op.key)) < HardMaxCacheSize =>
                 op.found /\ op.value = setLog[op.key].value
        ELSE ~op.found

C22_Witness ==
    /\ op.kind = "Get"
    /\ WasSet(op.key)
    /\ setLog[op.key].value
    /\ WithinLifeWindow(op.key)
    /\ op.at > setLog[op.key].at
    /\ op.found
    /\ op.value

C22_WitnessElapsed ==
    /\ op.kind = "Get"
    /\ WasSet(op.key)
    /\ SetSince(op.key) = {}
    /\ ~WithinLifeWindow(op.key)
    /\ ~op.found

(* ------------------------------- C23 ---------------------------------- *)
SetStep == op'.kind = "Set" /\ <<op, setLog, dataStore>>' # <<op, setLog, dataStore>>

C23_WitnessOversize ==
    /\ op.kind = "Set"
    /\ op.err
    /\ op.key = getResultCacheKey(ReqLong)
    /\ dataStore # <<>>

(* ------------------------------- C24 ---------------------------------- *)
(* the skew-adjusted expiry of the token obtained last is not behind the  *)
(* clock: RefreshToken stored at least its real expiry less expiryDelta   *)
LastTokenNotExpired ==
    tokens # <<>> /\ tokens[Len(tokens)] - expiryDelta >= now

(* C24: a bearer token obtained while serving one webhook request is      *)
(* shared with later requests: while the token obtained last is not past  *)
(* its skew-adjusted expiry, a later Check that misses the decision cache *)
(* goes on to send its check-access call without calling the token        *)
(* issuer again                                                           *)
C24_TokenSharedAcrossRequests ==
    [][\A t \in {"t1"} :
          (ExpiryTestStep(t) /\ LastTokenNotExpired) => pc'[t] = "checkAccess"]_vars

(* ------------------------------- C25 ---------------------------------- *)
(* task t is inside RefreshToken *)
Refreshing(t) == pc[t] \in {"acquire", "setHeader", "setExpiresAt"}

(* task t stores its expiry and no task is left inside RefreshToken *)
LastRefreshCompletes(t) ==
    /\ pc[t] = "setExpiresAt"
    /\ pc'[t] # "setExpiresAt"
    /\ \A u \in Tasks \ {t} : ~Refreshing(u)

(* C25: when several tasks refresh concurrently on the same client, once  *)
(* all of them have completed the stored Authorization header and the     *)
(* stored expiry both come from the same refresh response, that of the    *)
(* last writer; and every check-access request sent carries a token that  *)
(* some refresh returned                                                  *)
C25_SameRefreshResponse ==
    [][\A t \in Tasks :
          /\ LastRefreshCompletes(t) =>
                /\ headers' = tokResp[t].Token
                /\ expiresAt' = now + (tokResp[t].Expires - expiryDelta)
          /\ SendStep(t) => sent'[t].token \in 1..Len(tokens)]_vars

(* ------------------------------- C26 ---------------------------------- *)
(* C26: once CheckAccess has received a response from the remote API,     *)
(* the response body is closed on every exit path of the call, the path   *)
(* where reading the body fails and the path of a status that is not      *)
(* success included                                                        *)
C26_BodyAlwaysClosed ==
    [][\A t \in {"t1"} :
          (ReceiveStep(t) /\ resp'[t].kind = "response") => out'[t].bodyClosed]_vars

(* ------------------------------- C27 ---------------------------------- *)
(* the response reports a remaining quota, and one below the threshold *)
ReportsLowQuota(rsp) ==
    IsDigits(rsp.remaining) /\ DigitsVal(rsp.remaining) < armCallLimit

(* C27: CheckAccess closes the idle connections if and only if the remote *)
(* API returned too-many-requests, or returned success and reported a     *)
(* remaining quota below the threshold; a success that reports no quota   *)
(* (header absent or not a number) and any other status close nothing     *)
C27_ClosesIdleIffThrottled ==
    [][\A t \in {"t1"} :
          (ReceiveStep(t) /\ resp'[t].kind = "response" /\ ~resp'[t].readErr) =>
              (out'[t].closedIdle <=>
                  \/ resp'[t].StatusCode = StatusTooManyRequests
                  \/ resp'[t].StatusCode = StatusOK /\ ReportsLowQuota(resp'[t]))]_vars

(* ------------------------------- C28 ---------------------------------- *)
(* the segments "namespaces" and the namespace, for a request with one *)
NamespaceSegments(r) ==
    IF HasNamespace(r.ResourceAttributes)
    THEN namespaces \o Segments(r.ResourceAttributes[1].Namespace)
    ELSE <<>>

(* p has the segments segs and a single slash between them, before them   *)
(* or not                                                                  *)
IsPathOf(p, segs) ==
    LET joined == JoinWith([i \in 1..Len(segs) |-> <<segs[i]>>], <<"/">>)
    IN p \in {joined, <<"/">> \o joined}

(* C28: the check-access request is a POST to the path of the ARM         *)
(* endpoint, the resource id, "namespaces" and the namespace when the     *)
(* request has one, and providers/Microsoft.Authorization/checkaccess,    *)
(* with api-version=2018-09-01-preview; the namespace segments are in the *)
(* URL exactly when they end the resource id of the body: both for a      *)
(* resource request with a namespace, neither otherwise                    *)
C28_CheckAccessURL ==
    (fn = "CheckAccess" /\ prepareCheckAccessRequestBody(input.r1).err = "") =>
        LET ns == NamespaceSegments(input.r1)
            id == Segments(input.resourceId)
        IN /\ result.url.Method = "POST"
           /\ result.url.RawQuery = <<"api-version", "=", "2018-09-01-preview">>
           /\ IsPathOf(result.url.Path,
                       Segments(input.apiPath) \o id \o ns
                           \o <<"providers", "Microsoft.Authorization", "checkaccess">>)
           /\ Segments(result.scope) = id \o ns

C28_Witness ==
    /\ fn = "CheckAccess"
    /\ input.apiPath = <<"/", "arm", "/">>
    /\ input.resourceId = <<"/", "subscriptions", "/", "s1">>
    /\ HasNamespace(input.r1.ResourceAttributes)
    /\ result.url.Path = <<"/", "arm", "/", "subscriptions", "/", "s1", "/", "namespaces", "/",
                           "dev", "/", "providers", "/", "Microsoft.Authorization", "/",
                           "checkaccess">>
    /\ result.scope = <<"/", "subscriptions", "/", "s1", "/", "namespaces", "/", "dev">>

C28_WitnessNoNamespace ==
    /\ fn = "CheckAccess"
    /\ input.resourceId = <<"rid">>
    /\ ~HasNamespace(input.r1.ResourceAttributes)
    /\ result.url.Method = "POST"
    /\ result.scope = <<"rid">>

(* ------------------------------- C29 ---------------------------------- *)
HasCertificate(rq) == rq.TLS /\ Len(rq.PeerCertificates) > 0

(* the checks of the handler that request hreq passes, in their order:    *)
(* certificate, organization, body, provider lookup, client               *)
PassedChecks ==
    IF ~HasCertificate(hreq) THEN 0
    ELSE IF NoOrganization(hreq) THEN 1
    ELSE IF ~hreq.BodyOK THEN 2
    ELSE IF ~Has(providers, ServedOrg) THEN 3
    ELSE IF ~(ToLower(ServedOrg) = OrgType /\ azureNew) THEN 4
    ELSE 5

(* the error each failed check answers with *)
RefusalOf(n) ==
    CASE n = 0 -> "Missing client certificate"
      [] n = 1 -> "Client certificate is missing organization"
      [] n = 2 -> "Failed to parse request"
      [] n = 3 -> "guard does not provide service for"
      [] OTHER -> ""

C29_WitnessRefused ==
    /\ hreq # NoRequest
    /\ HasCertificate(hreq) /\ ~NoOrganization(hreq)
    /\ ~hreq.BodyOK
    /\ ~Has(providers, ServedOrg)
    /\ hresp.writes = 1
    /\ hresp.err.msg = "Failed to parse request"

(* ------------------------------- C30 ---------------------------------- *)
(* C30: whenever the azure authorizer can be invoked for a request the    *)
(* handler's decision store has been initialised: the endpoint is         *)
(* registered only when at least one authorizer provider is configured,   *)
(* and when azure is among them the store is created, or startup aborts,  *)
(* before the server accepts connections                                  *)
C30_StoreBeforeServing ==
    /\ hresp.resolved => server.Store = "store"
    /\ hreq # NoRequest => server.phase = "serving" /\ server.registered
    /\ server.registered => providers # {}
    /\ (server.phase = "serving" /\ Has(providers, OrgType)) => server.Store = "store"

C30_Witness ==
    /\ server.phase = "serving"
    /\ providers = {<<"A", "z", "u", "r", "e">>}
    /\ hresp.resolved
    /\ hresp.checks = 1
    /\ ServedOrg = OrgType
    /\ server.Store = "store"

C30_WitnessAborted ==
    /\ server.phase = "aborted"
    /\ Has(providers, OrgType)
    /\ hreq = NoRequest

====
